---- MODULE Spec2Model ----
(***************************************************************************)
(* Model of app.py: the movie recommender (recommend), its poster          *)
(* collaborator (fetch_poster over the retrying requests session) and the  *)
(* five-column rendering done by the Recommend button handler.             *)
(*                                                                         *)
(* Python lists are modelled as sequences; the DataFrame `movies` and the  *)
(* matrix `similarity` are functions over the 0-based positions 0..N-1.    *)
(***************************************************************************)
EXTENDS Integers, Sequences, FiniteSets, TLC

VARIABLES movies, similarity, call, ui, fetch

vars == <<movies, similarity, call, ui, fetch>>

(***************************************************************************)
(* Bounds of the model.                                                    *)
(***************************************************************************)
\* largest catalog size explored (7 is the first size at which [1:6] cuts)
MaxN == 7
\* similarity scores range over 0..MaxScore
MaxScore == 1

(***************************************************************************)
(* Program constants.                                                      *)
(***************************************************************************)
PLACEHOLDER == "https://via.placeholder.com/500x750?text=No+Image"

\* Retry(total=3, ...)
RetryTotal == 3

\* Retry(status_forcelist=[429, 500, 502, 503, 504])
status_forcelist == {429, 500, 502, 503, 504}

\* the number of columns the page renders, and the length recommend pads to
Columns == 5

IMAGE_BASE == "https://image.tmdb.org/t/p/w500"

(***************************************************************************)
(* Python values that can reach fetch_poster as movie_id, and JSON values  *)
(* that can sit under 'poster_path' / 'backdrop_path'.                     *)
(***************************************************************************)
PyInt(n) == [t |-> "int", n |-> n]

PyNaN == [t |-> "nan", n |-> 0]

JNull == [t |-> "null", s |-> ""]

JStr(s) == [t |-> "str", s |-> s]

JNum == [t |-> "num", s |-> ""]

\* Python truthiness of a JSON value: None and "" are falsy
Truthy(v) == (v.t = "str" /\ v.s # "") \/ v.t = "num"

Min(a, b) == IF a <= b THEN a ELSE b

(***************************************************************************)
(* The HTTP exchange behind one session.get: what each successive request  *)
(* meets (a connection/read failure, or a status), and the body that comes *)
(* with the response finally handed back.                                  *)
(***************************************************************************)
NetErr == [err |-> TRUE, status |-> 0]

Status(n) == [err |-> FALSE, status |-> n]

NoBody == [kind |-> "none", poster_path |-> JNull, backdrop_path |-> JNull]

\* urllib3's Retry as configured: a failed request is retried while the
\* budget `total` lasts; a connection error or a status of the forcelist
\* met with no budget left raises.
RECURSIVE urlopen(_, _, _)
urlopen(exch, k, total) ==
    LET a == exch.attempts[k] IN
    IF a.err
    THEN IF total = 0
         THEN [exc |-> "ConnectionError", status |-> 0, body |-> NoBody, requests |-> k]
         ELSE urlopen(exch, k + 1, total - 1)
    ELSE IF a.status \in status_forcelist
         THEN IF total = 0
              THEN [exc |-> "RetryError", status |-> a.status, body |-> NoBody, requests |-> k]
              ELSE urlopen(exch, k + 1, total - 1)
         ELSE [exc |-> "", status |-> a.status, body |-> exch.body, requests |-> k]

session_get(exch) == urlopen(exch, 1, RetryTotal)

\* a status check that lets the client errors through
raise_for_status_5xx(status) == status >= 500 /\ status < 600

\* response.raise_for_status(): HTTPError for 4xx and 5xx
raise_for_status(status) == status >= 400 /\ status < 600

\* the body of the try block of fetch_poster; exc is the exception that
\* leaves the block ("" when the block returns)
fetch_poster_try(movie_id, exch) ==
    IF movie_id.t # "int"
    THEN [exc |-> "ValueError", url |-> "", caught |-> "", requests |-> 0,
          status |-> 0, body |-> NoBody]
    ELSE LET response == session_get(exch)
             data == response.body
             path == IF Truthy(data.poster_path) THEN data.poster_path
                     ELSE data.backdrop_path
             sent == [caught |-> "", requests |-> response.requests,
                      status |-> response.status, body |-> response.body]
         IN  IF response.exc # ""
             THEN [exc |-> response.exc, url |-> ""] @@ sent
             ELSE IF raise_for_status(response.status)
             THEN [exc |-> "HTTPError", url |-> ""] @@ sent
             ELSE IF data.kind = "garbage"
             THEN [exc |-> "JSONDecodeError", url |-> ""] @@ sent
             ELSE IF data.kind # "dict"
             THEN [exc |-> "AttributeError", url |-> ""] @@ sent
             ELSE IF ~Truthy(path)
             THEN [exc |-> "", url |-> PLACEHOLDER] @@ sent
             ELSE IF path.t # "str"
             THEN [exc |-> "TypeError", url |-> ""] @@ sent
             ELSE [exc |-> "", url |-> IMAGE_BASE \o path.s] @@ sent

\* fetch_poster without its except clause: the exception escapes
fetch_poster_uncaught(movie_id, exch) == fetch_poster_try(movie_id, exch)

\* fetch_poster: `except Exception: return PLACEHOLDER`; `caught` keeps the
\* name of the exception that was swallowed
fetch_poster(movie_id, exch) ==
    LET r == fetch_poster_try(movie_id, exch) IN
    IF r.exc # ""
    THEN [r EXCEPT !.exc = "", !.url = PLACEHOLDER, !.caught = r.exc]
    ELSE r

(***************************************************************************)
(* The ranking of recommend.                                               *)
(***************************************************************************)
\* list(enumerate(distances)): the pairs <<index, score>> in index order
enumerate(distances) ==
    [k \in 1..Cardinality(DOMAIN distances) |-> <<k - 1, distances[k - 1]>>]

\* one step of an ascending stable sort (the sort without reverse=True)
InsertAscending(s, x) ==
    LET p == Cardinality({q \in 1..Len(s) : s[q][2] <= x[2]})
    IN  SubSeq(s, 1, p) \o <<x>> \o SubSeq(s, p + 1, Len(s))

\* one step of a descending sort that puts a later equal key in front
InsertBeforeTies(s, x) ==
    LET p == Cardinality({q \in 1..Len(s) : s[q][2] > x[2]})
    IN  SubSeq(s, 1, p) \o <<x>> \o SubSeq(s, p + 1, Len(s))

\* one step of sorted(..., reverse=True, key=lambda x: x[1]): x, the next
\* element in input order, goes behind every element whose key is >= its
\* own, so that equal keys keep their input order (reverse=True preserves
\* stability)
InsertDescending(s, x) ==
    LET p == Cardinality({q \in 1..Len(s) : s[q][2] >= x[2]})
    IN  SubSeq(s, 1, p) \o <<x>> \o SubSeq(s, p + 1, Len(s))

RECURSIVE sorted_from(_, _, _)
sorted_from(pairs, k, acc) ==
    IF k > Len(pairs) THEN acc
    ELSE sorted_from(pairs, k + 1, InsertDescending(acc, pairs[k]))

\* sorted(pairs, reverse=True, key=lambda x: x[1])
sorted(pairs) == sorted_from(pairs, 1, <<>>)

\* the Python slice s[a:b] for 0 <= a <= b
Slice(s, a, b) == SubSeq(s, a + 1, Min(b, Len(s)))

\* movies[movies['title'] == movie].index: the positions holding the title
title_matches(movie) == {i \in DOMAIN movies : movies[i].title = movie}

\* .index[0]: the first match
first_match(matches) == CHOOSE i \in matches : \A j \in matches : i <= j

(***************************************************************************)
(* recommend.  `acc` carries the three lists being built; `net` gives the  *)
(* HTTP exchange that the r-th call of fetch_poster meets.                 *)
(***************************************************************************)
EmptyLists == [names |-> <<>>, posters |-> <<>>, ids |-> <<>>, exc |-> "", fetched |-> 0]

\* a loop body that leaves out an entry whose poster could not be fetched
loop_body_skip_failed(acc, i, exch) ==
    LET tmdb_id == movies[i[1]].movie_id
        p == fetch_poster(tmdb_id, exch)
    IN  IF p.exc # ""
        THEN [acc EXCEPT !.exc = p.exc, !.fetched = @ + 1]
        ELSE IF p.url = PLACEHOLDER
        THEN [acc EXCEPT !.fetched = @ + 1]
        ELSE [acc EXCEPT !.names = Append(@, movies[i[1]].title),
                         !.posters = Append(@, p.url),
                         !.ids = Append(@, tmdb_id),
                         !.fetched = @ + 1]

\* the body of `for i in movies_list`
loop_body(acc, i, exch) ==
    LET tmdb_id == movies[i[1]].movie_id
        p == fetch_poster(tmdb_id, exch)
    IN  IF p.exc # ""
        THEN [acc EXCEPT !.exc = p.exc, !.fetched = @ + 1]
        ELSE [acc EXCEPT !.names = Append(@, movies[i[1]].title),
                         !.posters = Append(@, p.url),
                         !.ids = Append(@, tmdb_id),
                         !.fetched = @ + 1]

RECURSIVE for_loop(_, _, _, _)
for_loop(movies_list, net, r, acc) ==
    IF r > Len(movies_list) \/ acc.exc # "" THEN acc
    ELSE for_loop(movies_list, net, r + 1, loop_body(acc, movies_list[r], net[r]))

\* `while len(recommended_movies) < 5`: names and posters are padded, the
\* ids are not
RECURSIVE pad(_)
pad(acc) ==
    IF Len(acc.names) < Columns
    THEN pad([acc EXCEPT !.names = Append(@, "N/A"),
                         !.posters = Append(@, PLACEHOLDER)])
    ELSE acc

recommend(movie, net) ==
    LET matches == title_matches(movie) IN
    IF matches = {}
    THEN [movie |-> movie, status |-> "IndexError", movie_index |-> -1,
          movies_list |-> <<>>, names |-> <<>>, posters |-> <<>>, ids |-> <<>>,
          fetched |-> 0]
    ELSE LET movie_index == first_match(matches)
             distances == similarity[movie_index]
             movies_list == Slice(sorted(enumerate(distances)), 1, 6)
             looped == for_loop(movies_list, net, 1, EmptyLists)
             padded == pad(looped)
         IN  IF looped.exc # ""
             THEN [movie |-> movie, status |-> looped.exc, movie_index |-> movie_index,
                   movies_list |-> movies_list, names |-> <<>>, posters |-> <<>>,
                   ids |-> <<>>, fetched |-> looped.fetched]
             ELSE [movie |-> movie, status |-> "returned", movie_index |-> movie_index,
                   movies_list |-> movies_list, names |-> padded.names,
                   posters |-> padded.posters, ids |-> padded.ids,
                   fetched |-> looped.fetched]

(***************************************************************************)
(* The Recommend button handler: the call of recommend, then the five      *)
(* columns in order, each reading posters[k], ids[k] and names[k].         *)
(***************************************************************************)
\* the number of columns drawn before an index is out of range
columns_drawn(r) == Min(Columns, Min(Len(r.posters), Min(Len(r.ids), Len(r.names))))

button_handler(r) ==
    IF r.status # "returned"
    THEN [page |-> "exception", exc |-> r.status, cols |-> 0]
    ELSE IF columns_drawn(r) < Columns
    THEN [page |-> "exception", exc |-> "IndexError", cols |-> columns_drawn(r)]
    ELSE [page |-> "rendered", exc |-> "", cols |-> Columns]

(***************************************************************************)
(* The loaded data.  Titles are unique; neither the titles nor the ids are *)
(* in the order of the positions.                                          *)
(***************************************************************************)
TitleTable == <<"Heat", "Alien", "Fargo", "Brazil", "Jaws", "Casino", "Gattaca",
                "Eraserhead", "Duel", "Ikiru">>

title_at(i) == TitleTable[i + 1]

movie_id_at(i) == PyInt(100 + ((i * 7) % 10))

\* a title no record has
AbsentTitle == "Zodiac"

\* what st.selectbox yields when it has no options
NoSelection == "None"

Catalog(N) == [i \in 0..(N - 1) |-> [title |-> title_at(i), movie_id |-> movie_id_at(i)]]

\* the N x N matrix whose row i is v turned by i places: as v ranges over
\* all vectors, every row of it ranges over all vectors
Matrix(N, v) == [i \in 0..(N - 1) |-> [j \in 0..(N - 1) |-> v[(j - i) % N]]]

Vectors(N) == [0..(N - 1) -> 0..MaxScore]

\* two vectors per size: self-similarity on top of a flat row, and a row
\* whose scores cycle
NetVectors(N) == {[d \in 0..(N - 1) |-> IF d = 0 THEN MaxScore ELSE 0],
                  [d \in 0..(N - 1) |-> d % (MaxScore + 1)]}

NoCall == [movie |-> "", status |-> "none", movie_index |-> -1, movies_list |-> <<>>,
           names |-> <<>>, posters |-> <<>>, ids |-> <<>>, fetched |-> 0,
           again |-> FALSE]

NoFetch == [movie_id |-> PyInt(0), done |-> FALSE, exc |-> "", url |-> "", caught |-> "",
            requests |-> 0, status |-> 0, body |-> NoBody]

Idle == [page |-> "idle", exc |-> "", cols |-> 0]

Loaded(N, v) ==
    /\ movies = Catalog(N)
    /\ similarity = Matrix(N, v)
    /\ call = NoCall
    /\ ui = Idle
    /\ fetch = NoFetch

Init == \E N \in 0..MaxN : \E v \in Vectors(N) : Loaded(N, v)

InitNet == \E N \in 0..MaxN : \E v \in NetVectors(N) : Loaded(N, v)

\* the three-movie catalog
InitPoster == Loaded(3, [d \in 0..2 |-> IF d = 0 THEN MaxScore ELSE 0])

(***************************************************************************)
(* The inputs.                                                             *)
(***************************************************************************)
\* a success, a 3xx that is no redirect, a client error, two of the forcelist
StatusCodes == {200, 300, 404, 429, 503}

AttemptOutcomes == {NetErr} \cup {Status(n) : n \in StatusCodes}

Retryable(a) == a.err \/ a.status \in status_forcelist

\* the requests of one session.get: every request but the last is one that
\* the Retry retries, and the last is either one it does not retry or the
\* one that finds the budget spent
AttemptSeqs ==
    UNION {{s \in [1..len -> AttemptOutcomes] :
               /\ \A k \in 1..(len - 1) : Retryable(s[k])
               /\ (len = RetryTotal + 1 \/ ~Retryable(s[len]))}
           : len \in 1..(RetryTotal + 1)}

Bodies ==
    {[kind |-> "garbage", poster_path |-> JNull, backdrop_path |-> JNull],
     [kind |-> "list", poster_path |-> JNull, backdrop_path |-> JNull]}
    \cup [kind : {"dict"},
          poster_path : {JNull, JStr(""), JStr("/poster.jpg"), JNum},
          backdrop_path : {JNull, JStr("/backdrop.jpg")}]

Exchanges == [attempts : AttemptSeqs, body : Bodies]

MovieIds == {PyInt(101), PyInt(102), PyNaN}

\* the service answers with a poster
Up == [attempts |-> <<Status(200)>>,
       body |-> [kind |-> "dict", poster_path |-> JStr("/poster.jpg"),
                 backdrop_path |-> JNull]]

\* every request times out
Down == [attempts |-> [k \in 1..(RetryTotal + 1) |-> NetErr], body |-> NoBody]

AllUp == [r \in 1..Columns |-> Up]

AllDown == [r \in 1..Columns |-> Down]

Nets == [1..Columns -> {Up, Down}]

Titles == {movies[i].title : i \in DOMAIN movies}

Options == IF Titles = {} THEN {NoSelection} ELSE Titles

(***************************************************************************)
(* The operations.                                                         *)
(***************************************************************************)
\* `again` records that the call repeats the title of the call before it
Called(movie, net) ==
    recommend(movie, net) @@ [again |-> call.status # "none" /\ call.movie = movie]

\* a call of recommend(movie)
Recommend(movie, net) ==
    /\ call' = Called(movie, net)
    /\ UNCHANGED <<movies, similarity, ui, fetch>>

\* a click on the Recommend button with selected_movie_name = selected
Click(selected, net) ==
    /\ call' = Called(selected, net)
    /\ ui' = button_handler(call')
    /\ UNCHANGED <<movies, similarity, fetch>>

\* a call of fetch_poster(movie_id)
FetchPoster(movie_id, exch) ==
    /\ fetch' = fetch_poster(movie_id, exch) @@ [movie_id |-> movie_id, done |-> TRUE]
    /\ UNCHANGED <<movies, similarity, call, ui>>

\* the calls of recommend, for every matrix, with the service up
Next == \E movie \in Titles \cup {AbsentTitle} : Recommend(movie, AllUp)

Spec == Init /\ [][Next]_vars

\* the calls of recommend, for every combination of poster fetches that
\* succeed and fail, and the clicks with the service up or down
NextNet ==
    \/ \E movie \in Titles \cup {AbsentTitle} : \E net \in Nets : Recommend(movie, net)
    \/ \E selected \in Options : \E net \in {AllUp, AllDown} : Click(selected, net)

SpecNet == InitNet /\ [][NextNet]_vars

NextPoster == \E movie_id \in MovieIds : \E exch \in Exchanges : FetchPoster(movie_id, exch)

SpecPoster == InitPoster /\ [][NextPoster]_vars

(***************************************************************************)
(* Properties.                                                             *)
(***************************************************************************)
N == Cardinality(DOMAIN movies)

Returned == call.status = "returned"

\* the query row of the last call, and the catalog position of its r-th pick
Row == similarity[call.movie_index]

Picked(r) == call.movies_list[r][1]

\* the entries of the result that are not padding are the first Len(ids)
Entries == 1..Len(call.ids)

\* the ranking of every position but the query's own
OthersRanked ==
    LET NotSelf(x) == x[1] # call.movie_index
    IN  SelectSeq(sorted(enumerate(Row)), NotSelf)

\* C1: for a title of the catalog and any matrix, recommend returns exactly
\* 5 entries and the title's own position is not among the entries that are
\* not padding, also when its self-score is not the strict maximum of its row.
C1_SelfExcluded ==
    Returned =>
        /\ Len(call.names) = Columns
        /\ \A r \in Entries : Picked(r) # call.movie_index

\* C2: for a title that no record has, recommend raises NotFoundError, and
\* does so before any poster is fetched or any partial result is built.
C2_NotFoundError ==
    (call.status # "none" /\ title_matches(call.movie) = {}) =>
        /\ call.status = "NotFoundError"
        /\ call.fetched = 0
        /\ call.names = <<>> /\ call.posters = <<>> /\ call.ids = <<>>

\* C3: with at most 5 movies in the catalog, recommend returns 5 titles and
\* 5 external ids: the N-1 other movies in rank order, then ("N/A", null).
C3_PaddedToFive ==
    (Returned /\ N <= Columns) =>
        /\ Len(call.names) = Columns
        /\ Len(call.ids) = Columns
        /\ \A r \in 1..Columns :
              IF r <= N - 1
              THEN /\ call.names[r] = movies[OthersRanked[r][1]].title
                   /\ call.ids[r] = movies[OthersRanked[r][1]].movie_id
              ELSE /\ call.names[r] = "N/A"
                   /\ call.ids[r].t = "null"

\* C4: the entries of the result that are not padding are the picks, in the
\* order picked, and their scores to the query title never increase from one
\* rank to the next.
C4_ScoresNonIncreasing ==
    Returned =>
        /\ Len(call.ids) = Len(call.movies_list)
        /\ \A r \in Entries :
              /\ call.names[r] = movies[Picked(r)].title
              /\ call.ids[r] = movies[Picked(r)].movie_id
        /\ \A r \in Entries : r + 1 \in Entries => Row[Picked(r)] >= Row[Picked(r + 1)]

\* a result in which the score drops strictly between two returned ranks
C4_Witness ==
    /\ Returned
    /\ \E r \in Entries : r + 1 \in Entries /\ Row[Picked(r)] > Row[Picked(r + 1)]

\* C6: for a title of the catalog, whatever the poster fetches meet,
\* recommend returns, with the titles and ids it returns when every fetch
\* succeeds, in the same order; a poster that differs is the placeholder.
C6_PosterFailureConfined ==
    (call.status # "none" /\ title_matches(call.movie) # {}) =>
        /\ Returned
        /\ LET up == recommend(call.movie, AllUp)
           IN  /\ call.names = up.names
               /\ call.ids = up.ids
               /\ Len(call.posters) = Len(up.posters)
               /\ \A r \in 1..Len(call.posters) :
                     call.posters[r] # up.posters[r] => call.posters[r] = PLACEHOLDER

\* a result in which one poster fetch failed and another succeeded
C6_Witness ==
    /\ Returned
    /\ \E r \in Entries : call.posters[r] = PLACEHOLDER
    /\ \E r \in Entries : call.posters[r] # PLACEHOLDER

\* C7 as stated: a call that repeats the title of the call before it
\* returns a value equal in every component (names, posters, ids).
C7_SameOutput ==
    [][(call.status # "none" /\ call'.status # "none" /\ call'.movie = call.movie) =>
          /\ call'.status = call.status
          /\ call'.names = call.names
          /\ call'.posters = call.posters
          /\ call'.ids = call.ids]_vars

\* C7 amended: a call that repeats the title of the call before it ends the
\* same way (returns, or raises the same error) with the same names and the
\* same ids; the posters may differ, and only in which are the placeholder.
C7_SameNamesAndIds ==
    [][(call.status # "none" /\ call'.status # "none" /\ call'.movie = call.movie) =>
          /\ call'.status = call.status
          /\ call'.names = call.names
          /\ call'.ids = call.ids
          /\ Len(call'.posters) = Len(call.posters)
          /\ \A r \in 1..Len(call.posters) :
                call'.posters[r] # call.posters[r]
                    => PLACEHOLDER \in {call'.posters[r], call.posters[r]}]_vars

\* a repeated call that returned with a poster fetch failed
C7_Witness ==
    /\ call.again
    /\ Returned
    /\ \E r \in Entries : call.posters[r] = PLACEHOLDER

\* C8: recommend returns the top 5 among the movies other than the query:
\* no other movie left out scores strictly higher than one returned; the
\* head removed from the sorted list is the query's own position.
C8_TopFiveOfOthers ==
    Returned =>
        /\ Head(sorted(enumerate(Row)))[1] = call.movie_index
        /\ \A j \in DOMAIN movies :
              (j # call.movie_index /\ \A r \in Entries : Picked(r) # j)
                  => \A r \in Entries : Row[j] <= Row[Picked(r)]

\* C9: in the descending sort of recommend, of two positions with equal
\* score the lower comes first; so the returned entries of equal score are
\* in ascending catalog position.
C9_TiesByIndex ==
    Returned =>
        /\ LET s == sorted(enumerate(Row))
           IN  \A p, q \in 1..N : (p < q /\ s[p][2] = s[q][2]) => s[p][1] < s[q][1]
        /\ \A p, q \in Entries :
              (p < q /\ Row[Picked(p)] = Row[Picked(q)]) => Picked(p) < Picked(q)

\* two returned entries of equal score, the first with the greater movie id
C9_Witness ==
    /\ Returned
    /\ \E p, q \in Entries :
          /\ p < q
          /\ Row[Picked(p)] = Row[Picked(q)]
          /\ movies[Picked(p)].movie_id.n > movies[Picked(q)].movie_id.n

\* C10: the three lists of a result all have length 5 and agree position by
\* position, and the page drawn after a click on a catalog title never
\* reads an index out of range.
C10_ListsConsistent ==
    /\ Returned =>
          /\ Len(call.names) = Columns
          /\ Len(call.posters) = Columns
          /\ Len(call.ids) = Columns
    /\ N > 0 => ui.page # "exception"

(***************************************************************************)
(* Properties of fetch_poster.                                             *)
(***************************************************************************)
\* the path that `poster_path or backdrop_path` selects in the last response
SelectedPath ==
    IF Truthy(fetch.body.poster_path) THEN fetch.body.poster_path
    ELSE fetch.body.backdrop_path

\* no response was handed back: the id was unusable, the requests failed, or
\* the retries ran out on a status of the forcelist
NoResponse == fetch.caught \in {"ValueError", "ConnectionError", "RetryError"}

\* C5 as stated: fetch_poster never raises and sends at most 1 + 3 requests;
\* it returns the placeholder on a network error, on a status outside 2xx,
\* on a body it cannot use and when the response has no usable path, and
\* the image URL built from the selected path otherwise.
C5_PlaceholderOnNon2xx ==
    fetch.done =>
        /\ fetch.exc = ""
        /\ fetch.requests <= RetryTotal + 1
        /\ IF \/ NoResponse
              \/ fetch.status < 200 \/ fetch.status > 299
              \/ fetch.body.kind # "dict"
              \/ ~Truthy(SelectedPath)
              \/ SelectedPath.t # "str"
           THEN fetch.url = PLACEHOLDER
           ELSE fetch.url = IMAGE_BASE \o SelectedPath.s

\* C5 amended: fetch_poster never raises and sends at most 1 + 3 requests;
\* it returns the placeholder when no response comes back, on a 4xx or 5xx
\* status, on a body that is not a JSON object, and when the selected path
\* is empty or not a string; otherwise (a status below 400, 2xx or not) it
\* returns the image URL built from the selected path.
C5_PlaceholderOnFailure ==
    fetch.done =>
        /\ fetch.exc = ""
        /\ fetch.requests <= RetryTotal + 1
        /\ IF \/ NoResponse
              \/ fetch.status >= 400
              \/ fetch.body.kind # "dict"
              \/ ~Truthy(SelectedPath)
              \/ SelectedPath.t # "str"
           THEN fetch.url = PLACEHOLDER
           ELSE fetch.url = IMAGE_BASE \o SelectedPath.s

\* a fetch that met a status of the forcelist on every request and gave up
C5_Witness ==
    /\ fetch.done
    /\ fetch.caught = "RetryError"
    /\ fetch.requests = RetryTotal + 1
    /\ fetch.url = PLACEHOLDER

====
